---- MODULE Spec2Model ----
(***************************************************************************)
(* Speaker-segment detection, consolidation, clip splitting, subtitle      *)
(* grouping and batch coordination of the ai_agent package.                *)
(*                                                                         *)
(* Units: times of the detector and of the clip splitter are whole         *)
(* seconds; similarities are hundredths (0.95 is 95); peak amplitudes are  *)
(* thousandths (0.005 is 5); word and subtitle times are hundredths of a   *)
(* second (0.15 s is 15).                                                  *)
(***************************************************************************)
EXTENDS Integers, Sequences, FiniteSets, TLC

\* ------------------------------------------------------------------------
\* Bounds of the model
\* ------------------------------------------------------------------------
MaxWindows == 3
LongWindows == 23
MaxSegStart == 1
MaxSegDuration == 125
MaxNegDuration == 1
MaxPrefix == 1
MaxWords == 4
MaxTick == 4
MaxLines == 3

\* ------------------------------------------------------------------------
\* Program constants
\* ------------------------------------------------------------------------
SEGMENT_DURATION_SEC == 3
SIMILARITY_THRESHOLD == 95
MIN_CONSECUTIVE_SEGMENTS == 1
SILENCE_PEAK == 5
SHORT_MIN_DURATION == 3
SHORT_MAX_DURATION == 60
SHORT_TARGET_DURATION == 30
WORDS_PER_GROUP == 4
MIN_WORD_DURATION == 15
MAX_WORKERS == 4

\* ------------------------------------------------------------------------
\* Helpers
\* ------------------------------------------------------------------------
Min(a, b) == IF a <= b THEN a ELSE b

Range(s) == {s[k] : k \in 1..Len(s)}

\* ------------------------------------------------------------------------
\* Audio: a decoded timeline is its sequence of whole windows; a window is
\* its peak absolute amplitude and what the embedding oracle does on it
\* (raises, or yields an embedding of the given similarity to the reference).
\* ------------------------------------------------------------------------
Peaks == {SILENCE_PEAK - 1, SILENCE_PEAK}

Sims == {SIMILARITY_THRESHOLD - 1, SIMILARITY_THRESHOLD}

Windows ==
    [peak : Peaks, raises : {TRUE}, sim : {0}]
        \cup [peak : Peaks, raises : {FALSE}, sim : Sims]

SeqsUpTo(S, n) == UNION {[1..k -> S] : k \in 0..n}

\* A long take: every window is audible and matches the reference, but for
\* the second one, which scores just below the threshold.
LongAudio ==
    [k \in 1..LongWindows |->
        [peak |-> SILENCE_PEAK, raises |-> FALSE,
         sim |-> IF k = 2 THEN SIMILARITY_THRESHOLD - 1 ELSE SIMILARITY_THRESHOLD]]

Audios == SeqsUpTo(Windows, MaxWindows) \cup {LongAudio}

\* ------------------------------------------------------------------------
\* detect_theodore.py: the window scan of detect_theodore_segments.
\* Window i of the code is audio[i + 1].  The scan state is the list of
\* matching window indices, the scored (index, similarity) pairs and the
\* windows handed to get_embedding.
\* ------------------------------------------------------------------------
ScanStart == [detections |-> <<>>, all_similarities |-> <<>>, oracle_calls |-> <<>>]

IsSilent(w) == w.peak < SILENCE_PEAK

\* Variant: a window on which the oracle raised is kept as a detection.
ScanWindowRaiseMatches(acc, i, w) ==
    IF IsSilent(w)
    THEN acc
    ELSE [detections |->
              IF w.raises \/ w.sim >= SIMILARITY_THRESHOLD
              THEN Append(acc.detections, i)
              ELSE acc.detections,
          all_similarities |-> Append(acc.all_similarities, <<i, w.sim>>),
          oracle_calls |-> Append(acc.oracle_calls, i)]

ScanWindow(acc, i, w) ==
    IF IsSilent(w)
    THEN acc
    ELSE IF w.raises
         THEN [acc EXCEPT !.oracle_calls = Append(@, i)]
         ELSE [detections |->
                   IF w.sim >= SIMILARITY_THRESHOLD
                   THEN Append(acc.detections, i)
                   ELSE acc.detections,
               all_similarities |-> Append(acc.all_similarities, <<i, w.sim>>),
               oracle_calls |-> Append(acc.oracle_calls, i)]

RECURSIVE ScanFrom(_, _, _)
ScanFrom(a, i, acc) ==
    IF i >= Len(a)
    THEN acc
    ELSE ScanFrom(a, i + 1, ScanWindow(acc, i, a[i + 1]))

ScanAudio(a) == ScanFrom(a, 0, ScanStart)

\* Consolidation of consecutive matching window indices (step 7).
\* Variant: the end of a run is taken at the start of its last window.
CloseRunEndAtWindowStart(segs, current_start, current_end, min_consecutive) ==
    IF (current_end - current_start + 1) >= min_consecutive
    THEN Append(segs, <<current_start * SEGMENT_DURATION_SEC,
                        current_end * SEGMENT_DURATION_SEC>>)
    ELSE segs

CloseRun(segs, current_start, current_end, min_consecutive) ==
    IF (current_end - current_start + 1) >= min_consecutive
    THEN Append(segs, <<current_start * SEGMENT_DURATION_SEC,
                        (current_end + 1) * SEGMENT_DURATION_SEC>>)
    ELSE segs

\* Variant: a run continues over a gap of one window.
RECURSIVE ConsolidateFromBridgeGap(_, _, _, _, _, _)
ConsolidateFromBridgeGap(d, k, current_start, current_end, segs, min_consecutive) ==
    IF k > Len(d)
    THEN CloseRun(segs, current_start, current_end, min_consecutive)
    ELSE IF d[k] <= current_end + 2
         THEN ConsolidateFromBridgeGap(d, k + 1, current_start, d[k], segs,
                                       min_consecutive)
         ELSE ConsolidateFromBridgeGap(d, k + 1, d[k], d[k],
                                       CloseRun(segs, current_start, current_end,
                                                min_consecutive),
                                       min_consecutive)

RECURSIVE ConsolidateFrom(_, _, _, _, _, _)
ConsolidateFrom(d, k, current_start, current_end, segs, min_consecutive) ==
    IF k > Len(d)
    THEN CloseRun(segs, current_start, current_end, min_consecutive)
    ELSE IF d[k] = current_end + 1
         THEN ConsolidateFrom(d, k + 1, current_start, d[k], segs, min_consecutive)
         ELSE ConsolidateFrom(d, k + 1, d[k], d[k],
                              CloseRun(segs, current_start, current_end, min_consecutive),
                              min_consecutive)

Consolidate(d, min_consecutive) ==
    IF d = <<>>
    THEN <<>>
    ELSE ConsolidateFrom(d, 2, d[1], d[1], <<>>, min_consecutive)

\* ------------------------------------------------------------------------
\* The persisted timestamp artifact.  A line is described by what the reader
\* looks at: how many arrows it holds, whether its first character is a
\* digit, whether it has the "<index>." prefix, and its two time fields.  A
\* time field is three numbers ("time"), three numbers followed by further
\* ":" parts ("time_extra"), or text that is not numeric or lacks a part.
\* ------------------------------------------------------------------------
\* Variant: the minutes field is left at zero.
format_time_no_minutes(seconds) ==
    <<seconds \div 3600, 0, seconds % 60>>

format_time(seconds) ==
    <<seconds \div 3600, (seconds % 3600) \div 60, seconds % 60>>

\* A time field as written: three numbers.
TimeField(hms) == [kind |-> "time", hms |-> hms]

\* A header or blank line: no arrow, no leading digit.
TextLine ==
    [arrows |-> 0, digit_first |-> FALSE, has_index |-> FALSE, index |-> 0,
     start |-> TimeField(<<0, 0, 0>>), end |-> TimeField(<<0, 0, 0>>)]

\* "<i>. HH:MM:SS -> HH:MM:SS": one arrow, and the index puts a digit first.
EntryLine(i, seg) ==
    [arrows |-> 1, digit_first |-> TRUE, has_index |-> TRUE, index |-> i,
     start |-> TimeField(format_time(seg[1])), end |-> TimeField(format_time(seg[2]))]

FileHeader == <<TextLine, TextLine, TextLine>>

WriteTimestamps(segs) ==
    [exists |-> TRUE,
     lines |-> FileHeader \o [i \in 1..Len(segs) |-> EntryLine(i, segs[i])]]

NoFile == [exists |-> FALSE, lines |-> <<>>]

ParseTime(f) == f[1] * 3600 + f[2] * 60 + f[3]

\* int() of the first three ":" parts of a field succeeds.
Converts(field) == field.kind \in {"time", "time_extra"}

\* Lines 488-505, one line: it is looked at when it holds an arrow and
\* starts with a digit, split at the arrows, and the first three parts of
\* its two fields (the left one is what follows the last "." before the
\* arrow, so the index is not looked at) are converted; a part that is not
\* a number or is missing raises ValueError or IndexError, which the except
\* clause turns into `continue`.
ParseLine(line) ==
    IF line.arrows >= 1 /\ line.digit_first
    THEN IF line.arrows = 1
         THEN IF Converts(line.start) /\ Converts(line.end)
              THEN <<<<ParseTime(line.start.hms), ParseTime(line.end.hms)>>>>
              ELSE <<>>
         ELSE <<>>
    ELSE <<>>

\* Variant: a field that cannot be converted ends the reading.
RECURSIVE ParseLinesStopAtBadField(_, _)
ParseLinesStopAtBadField(lines, k) ==
    IF k > Len(lines)
    THEN <<>>
    ELSE IF /\ lines[k].arrows = 1
            /\ lines[k].digit_first
            /\ (~Converts(lines[k].start) \/ ~Converts(lines[k].end))
         THEN <<>>
         ELSE ParseLine(lines[k]) \o ParseLinesStopAtBadField(lines, k + 1)

RECURSIVE ParseLines(_, _)
ParseLines(lines, k) ==
    IF k > Len(lines)
    THEN <<>>
    ELSE ParseLine(lines[k]) \o ParseLines(lines, k + 1)

read_timestamps(file) ==
    IF ~file.exists THEN <<>> ELSE ParseLines(file.lines, 1)

\* ------------------------------------------------------------------------
\* generate_shorts.py: split_into_shorts
\* ------------------------------------------------------------------------
\* Variant: a remainder of exactly the minimum duration is absorbed too.
RECURSIVE SplitLoopAbsorbAtMin(_, _)
SplitLoopAbsorbAtMin(current_start, end) ==
    IF current_start < end
    THEN LET cut == Min(current_start + SHORT_TARGET_DURATION, end)
             remaining == end - cut
             current_end == IF remaining > 0 /\ remaining <= SHORT_MIN_DURATION
                            THEN end
                            ELSE cut
         IN  (IF current_end - current_start >= SHORT_MIN_DURATION
              THEN <<<<current_start, current_end>>>>
              ELSE <<>>) \o SplitLoopAbsorbAtMin(current_end, end)
    ELSE <<>>

\* Variant: no remainder is absorbed; a tail below the minimum is dropped.
RECURSIVE SplitLoopDropShortTail(_, _)
SplitLoopDropShortTail(current_start, end) ==
    IF current_start < end
    THEN LET current_end == Min(current_start + SHORT_TARGET_DURATION, end)
         IN  (IF current_end - current_start >= SHORT_MIN_DURATION
              THEN <<<<current_start, current_end>>>>
              ELSE <<>>) \o SplitLoopDropShortTail(current_end, end)
    ELSE <<>>

\* Variant: a remainder below the target duration is absorbed.
RECURSIVE SplitLoopAbsorbBelowTarget(_, _)
SplitLoopAbsorbBelowTarget(current_start, end) ==
    IF current_start < end
    THEN LET cut == Min(current_start + SHORT_TARGET_DURATION, end)
             remaining == end - cut
             current_end == IF remaining > 0 /\ remaining < SHORT_TARGET_DURATION
                            THEN end
                            ELSE cut
         IN  (IF current_end - current_start >= SHORT_MIN_DURATION
              THEN <<<<current_start, current_end>>>>
              ELSE <<>>) \o SplitLoopAbsorbBelowTarget(current_end, end)
    ELSE <<>>

\* Variant: no remainder is absorbed and a tail below the minimum is kept.
RECURSIVE SplitLoopKeepShortTail(_, _)
SplitLoopKeepShortTail(current_start, end) ==
    IF current_start < end
    THEN LET current_end == Min(current_start + SHORT_TARGET_DURATION, end)
         IN  <<<<current_start, current_end>>>> \o SplitLoopKeepShortTail(current_end, end)
    ELSE <<>>

RECURSIVE SplitLoop(_, _)
SplitLoop(current_start, end) ==
    IF current_start < end
    THEN LET cut == Min(current_start + SHORT_TARGET_DURATION, end)
             remaining == end - cut
             current_end == IF remaining > 0 /\ remaining < SHORT_MIN_DURATION
                            THEN end
                            ELSE cut
         IN  (IF current_end - current_start >= SHORT_MIN_DURATION
              THEN <<<<current_start, current_end>>>>
              ELSE <<>>) \o SplitLoop(current_end, end)
    ELSE <<>>

\* Variant: a segment of exactly the minimum duration is dropped.
SplitSegmentStrictMin(seg) ==
    LET duration == seg[2] - seg[1]
    IN  IF duration <= SHORT_MAX_DURATION
        THEN IF duration > SHORT_MIN_DURATION THEN <<seg>> ELSE <<>>
        ELSE SplitLoop(seg[1], seg[2])

SplitSegment(seg) ==
    LET duration == seg[2] - seg[1]
    IN  IF duration <= SHORT_MAX_DURATION
        THEN IF duration >= SHORT_MIN_DURATION THEN <<seg>> ELSE <<>>
        ELSE SplitLoop(seg[1], seg[2])

RECURSIVE SplitFrom(_, _)
SplitFrom(segs, k) ==
    IF k > Len(segs) THEN <<>> ELSE SplitSegment(segs[k]) \o SplitFrom(segs, k + 1)

split_into_shorts(segs) == SplitFrom(segs, 1)

\* ------------------------------------------------------------------------
\* generate_shorts.py: group_words_for_display.  A word and a group are
\* (start, end, text) triples.
\* ------------------------------------------------------------------------
RECURSIVE JoinWords(_, _)
JoinWords(ws, k) ==
    IF k > Len(ws)
    THEN ""
    ELSE IF k = Len(ws)
         THEN ws[k][3]
         ELSE ws[k][3] \o " " \o JoinWords(ws, k + 1)

\* Variant: the floor is one minimum word duration, whatever the chunk size.
MakeGroupFloorOneWord(current_group) ==
    LET group_start == current_group[1][1]
        last_end == current_group[Len(current_group)][2]
        group_end ==
            IF last_end - group_start < MIN_WORD_DURATION
            THEN group_start + MIN_WORD_DURATION
            ELSE last_end
    IN  <<group_start, group_end, JoinWords(current_group, 1)>>

\* One group from the words of a chunk, with the minimum-duration floor.
MakeGroup(current_group) ==
    LET group_start == current_group[1][1]
        last_end == current_group[Len(current_group)][2]
        group_end ==
            IF last_end - group_start < MIN_WORD_DURATION * Len(current_group)
            THEN group_start + MIN_WORD_DURATION * Len(current_group)
            ELSE last_end
    IN  <<group_start, group_end, JoinWords(current_group, 1)>>

\* Variant: a group is closed only once it holds more than words_per_group
\* words.
RECURSIVE BuildGroupsOneMore(_, _, _, _, _)
BuildGroupsOneMore(words, k, current_group, groups, words_per_group) ==
    IF k > Len(words)
    THEN IF current_group # <<>> THEN Append(groups, MakeGroup(current_group)) ELSE groups
    ELSE LET grown == Append(current_group, words[k])
         IN  IF Len(grown) > words_per_group
             THEN BuildGroupsOneMore(words, k + 1, <<>>, Append(groups, MakeGroup(grown)),
                                     words_per_group)
             ELSE BuildGroupsOneMore(words, k + 1, grown, groups, words_per_group)

\* Lines 114-143: the groups before the overlap sweep.
RECURSIVE BuildGroups(_, _, _, _, _)
BuildGroups(words, k, current_group, groups, words_per_group) ==
    IF k > Len(words)
    THEN IF current_group # <<>> THEN Append(groups, MakeGroup(current_group)) ELSE groups
    ELSE LET grown == Append(current_group, words[k])
         IN  IF Len(grown) >= words_per_group
             THEN BuildGroups(words, k + 1, <<>>, Append(groups, MakeGroup(grown)),
                              words_per_group)
             ELSE BuildGroups(words, k + 1, grown, groups, words_per_group)

\* Variant: an overlap is resolved by cutting the earlier group short.
RECURSIVE ResolveOverlapsTrimPrevious(_, _)
ResolveOverlapsTrimPrevious(groups, i) ==
    IF i > Len(groups)
    THEN groups
    ELSE IF groups[i][1] < groups[i - 1][2]
         THEN ResolveOverlapsTrimPrevious(
                  [groups EXCEPT ![i - 1] = <<groups[i - 1][1], groups[i][1], groups[i - 1][3]>>],
                  i + 1)
         ELSE ResolveOverlapsTrimPrevious(groups, i + 1)

\* Lines 145-149: the forward sweep; i is the 1-based index of the group
\* compared with its predecessor.
RECURSIVE ResolveOverlaps(_, _)
ResolveOverlaps(groups, i) ==
    IF i > Len(groups)
    THEN groups
    ELSE IF groups[i][1] < groups[i - 1][2]
         THEN ResolveOverlaps(
                  [groups EXCEPT ![i] = <<groups[i - 1][2], groups[i][2], groups[i][3]>>],
                  i + 1)
         ELSE ResolveOverlaps(groups, i + 1)

RawGroups(words, words_per_group) ==
    IF words = <<>> THEN <<>> ELSE BuildGroups(words, 1, <<>>, <<>>, words_per_group)

group_words_for_display(words, words_per_group) ==
    ResolveOverlaps(RawGroups(words, words_per_group), 2)

\* ------------------------------------------------------------------------
\* detect_batch.py: analyze_single_video, the task run by a pool worker.
\* Its input is what the task finds: whether the voice print file exists,
\* which of its calls raises, the decoded signal (its whole windows and the
\* seconds left after the last of them), and whether removing the temporary
\* WAV raises.
\* ------------------------------------------------------------------------
NoError == "None"

VoicePrintMissing == "Empreinte vocale non trouvee"

ExceptionText == "exception"

TaskFaults == {"load_raises", "from_file_raises", "read_raises"}

TaskInput(vp, fault, a, rm) ==
    [voice_print |-> vp, fault |-> fault, audio |-> a, tail |-> 0, remove_raises |-> rm]

TaskInputsOver(audios) ==
    {TaskInput(FALSE, "none", <<>>, FALSE)}
        \cup {TaskInput(TRUE, f, <<>>, FALSE) : f \in TaskFaults}
        \cup {TaskInput(TRUE, "none", a, rm) : a \in audios, rm \in BOOLEAN}

\* What a signal can hold after its last whole window.
Tails == 0..(SEGMENT_DURATION_SEC - 1)

\* The inputs whose signal is decoded, with every tail.
TaskInputsWithTail(audios) ==
    TaskInputsOver(audios)
        \cup {[TaskInput(TRUE, "none", a, rm) EXCEPT !.tail = t] :
                 a \in audios, rm \in BOOLEAN, t \in Tails}

\* detect_batch.py line 111 and detect_theodore.py line 142: len(signal) / sr.
TotalDuration(a, tail) == Len(a) * SEGMENT_DURATION_SEC + tail

\* detect_batch.py line 115: int(total_duration / SEGMENT_DURATION_SEC).
num_segments(total_duration) == total_duration \div SEGMENT_DURATION_SEC

\* detect_theodore.py lines 145-146: int(len(audio_data) / segment_samples).
total_segments(total_duration) == total_duration \div SEGMENT_DURATION_SEC

\* The windows range(n) goes through.
WindowsOfSignal(a, n) == SubSeq(a, 1, n)

Basename(video) ==
    CASE video = "a/x.mp4" -> "x.mp4"
      [] video = "a/y.mp4" -> "y.mp4"
      [] video = "b/x.mp4" -> "x.mp4"
      [] OTHER -> video

\* Lines 118-145: every window is normalised and embedded; an oracle
\* exception leaves the loop.
BatchScanStart == [matches |-> <<>>, oracle_calls |-> <<>>, raised |-> FALSE]

RECURSIVE BatchScanFrom(_, _, _)
BatchScanFrom(a, i, acc) ==
    IF i >= Len(a)
    THEN acc
    ELSE LET w == a[i + 1]
             called == Append(acc.oracle_calls, i)
         IN  IF w.raises
             THEN [acc EXCEPT !.oracle_calls = called, !.raised = TRUE]
             ELSE BatchScanFrom(a, i + 1,
                      [acc EXCEPT
                          !.oracle_calls = called,
                          !.matches =
                              IF w.sim >= SIMILARITY_THRESHOLD
                              THEN Append(@, <<i * SEGMENT_DURATION_SEC,
                                               (i + 1) * SEGMENT_DURATION_SEC>>)
                              ELSE @])

BatchScan(a) == BatchScanFrom(a, 0, BatchScanStart)

\* Variant: a match merges only when it starts before the running end.
RECURSIVE BatchConsolidateFromStrict(_, _, _, _, _)
BatchConsolidateFromStrict(matches, k, current_start, current_end, consolidated) ==
    IF k > Len(matches)
    THEN Append(consolidated, <<current_start, current_end>>)
    ELSE IF matches[k][1] < current_end
         THEN BatchConsolidateFromStrict(matches, k + 1, current_start, matches[k][2],
                                         consolidated)
         ELSE BatchConsolidateFromStrict(matches, k + 1, matches[k][1], matches[k][2],
                                         Append(consolidated, <<current_start, current_end>>))

\* Lines 147-163: matches whose start is not after the running end merge.
RECURSIVE BatchConsolidateFrom(_, _, _, _, _)
BatchConsolidateFrom(matches, k, current_start, current_end, consolidated) ==
    IF k > Len(matches)
    THEN Append(consolidated, <<current_start, current_end>>)
    ELSE IF matches[k][1] <= current_end
         THEN BatchConsolidateFrom(matches, k + 1, current_start, matches[k][2],
                                   consolidated)
         ELSE BatchConsolidateFrom(matches, k + 1, matches[k][1], matches[k][2],
                                   Append(consolidated, <<current_start, current_end>>))

BatchConsolidate(matches) ==
    IF matches = <<>>
    THEN <<>>
    ELSE BatchConsolidateFrom(matches, 2, matches[1][1], matches[1][2], <<>>)

RECURSIVE SumDurations(_, _)
SumDurations(segs, k) ==
    IF k > Len(segs) THEN 0 ELSE (segs[k][2] - segs[k][1]) + SumDurations(segs, k + 1)

\* The task's return value, whether its temporary WAV is still on disk when
\* it returns, and the windows it handed to the oracle.
analyze_single_video(video, inp) ==
    LET result == [video |-> Basename(video), status |-> "error", segments |-> <<>>,
                   total_duration |-> 0, theodore_duration |-> 0, error |-> NoError]
        total_duration == TotalDuration(inp.audio, inp.tail)
        scan == BatchScan(WindowsOfSignal(inp.audio, num_segments(total_duration)))
        consolidated == BatchConsolidate(scan.matches)
        success == [result EXCEPT !.status = "success",
                                  !.segments = consolidated,
                                  !.total_duration = total_duration,
                                  !.theodore_duration = SumDurations(consolidated, 1)]
    IN  IF ~inp.voice_print
        THEN [result |-> [result EXCEPT !.error = VoicePrintMissing],
              temp_wav |-> FALSE, oracle_calls |-> <<>>]
        ELSE IF inp.fault \in {"load_raises", "from_file_raises"}
        THEN [result |-> [result EXCEPT !.error = ExceptionText],
              temp_wav |-> FALSE, oracle_calls |-> <<>>]
        ELSE IF inp.fault = "read_raises"
        THEN [result |-> [result EXCEPT !.error = ExceptionText],
              temp_wav |-> TRUE, oracle_calls |-> <<>>]
        ELSE IF scan.raised
        THEN [result |-> [result EXCEPT !.total_duration = total_duration,
                                        !.error = ExceptionText],
              temp_wav |-> TRUE, oracle_calls |-> scan.oracle_calls]
        ELSE IF inp.remove_raises
        THEN [result |-> [success EXCEPT !.error = ExceptionText],
              temp_wav |-> TRUE, oracle_calls |-> scan.oracle_calls]
        ELSE [result |-> success, temp_wav |-> FALSE, oracle_calls |-> scan.oracle_calls]

\* ------------------------------------------------------------------------
\* State
\* ------------------------------------------------------------------------
VARIABLES
    \* single-file detector, persisted artifact and clip generation
    phase,                  \* "idle", "selected", "detected", "shorts", "pipeline"
    audio,                  \* decoded windows of the selected video
    detect_outcome,         \* "none" or how the last detection run ended
    detections,             \* matching window indices
    all_similarities,       \* scored (window index, similarity) pairs
    oracle_calls,           \* window indices handed to get_embedding
    consolidated_segments,  \* what detect_theodore_segments returns
    timestamps_file,        \* output_segments/theodore_timestamps.txt
    extracted,              \* the intervals handed to extract_short
    \* clip splitter applied to a segment list
    segments,
    shorts,
    split_pc,               \* "off", "input", "done" (the call returned its list)
    \* subtitle grouper applied to a word list
    word_timestamps,
    words_per_group,
    raw_groups,             \* the groups as built, before the overlap sweep
    groups,                 \* what group_words_for_display returns
    group_pc,               \* "off", "input", "done"
    \* one run of the batch worker on one video
    task_input,
    task_result,            \* the dictionary analyze_single_video returns
    temp_wav_exists,        \* the task's temporary WAV is on disk
    task_oracle_calls,      \* window indices handed to encode_batch
    task_pc,                \* "off", "input", "returned"
    \* the batch coordinator (main of detect_batch.py)
    video_files,            \* the distinct paths submitted
    workers,                \* args.workers
    batch_input,            \* what each video's task finds
    future,                 \* per video: state of its future and its result
    results,                \* the list main collects
    collected,              \* future_to_video[future] of each collected result
    main_pc,                \* "off", "start", "collecting", "saved", "timeout"
    \* the transcription engines shared by the threads of one process
    engines,                \* _engines: per model type, its instance or NoEngine
    instances,              \* the TranscriptionEngine objects constructed so far
    model_lock,             \* _model_lock: the thread holding it, or Free
    thread_pc,              \* per thread: where it is in get_engine / transcribe
    thread_type,            \* per thread: the model type it asked for
    thread_engine,          \* per thread: the instance get_engine returned to it
    thread_op,              \* per thread: "transcribe" or "transcribe_words"
    thread_outcome,         \* per thread: how its last model call ended
    \* read_timestamps applied to a file
    read_file,
    read_segments,          \* what read_timestamps returns
    read_pc,                \* "off", "input", "done"
    \* word-highlight subtitle events built by one call
    hl_call,                \* the function called and its arguments
    hl_windows,             \* the Dialogue events appended, in order
    hl_pc                   \* "off", "input", "done"

detect_vars ==
    <<phase, audio, detect_outcome, detections, all_similarities, oracle_calls,
      consolidated_segments, timestamps_file, extracted>>

split_vars == <<segments, shorts, split_pc>>

group_vars == <<word_timestamps, words_per_group, raw_groups, groups, group_pc>>

task_vars == <<task_input, task_result, temp_wav_exists, task_oracle_calls, task_pc>>

batch_vars == <<video_files, workers, batch_input, future, results, collected, main_pc>>

engine_vars ==
    <<engines, instances, model_lock, thread_pc, thread_type, thread_engine,
      thread_op, thread_outcome>>

read_vars == <<read_file, read_segments, read_pc>>

hl_vars == <<hl_call, hl_windows, hl_pc>>

vars ==
    <<detect_vars, split_vars, group_vars, task_vars, batch_vars, engine_vars,
      read_vars, hl_vars>>

DetectIdle ==
    /\ phase = "idle"
    /\ audio = <<>>
    /\ detect_outcome = "none"
    /\ detections = <<>>
    /\ all_similarities = <<>>
    /\ oracle_calls = <<>>
    /\ consolidated_segments = <<>>
    /\ timestamps_file = NoFile
    /\ extracted = <<>>

SplitOff ==
    /\ segments = <<>>
    /\ shorts = <<>>
    /\ split_pc = "off"

GroupOff ==
    /\ word_timestamps = <<>>
    /\ words_per_group = WORDS_PER_GROUP
    /\ raw_groups = <<>>
    /\ groups = <<>>
    /\ group_pc = "off"

NoResult ==
    [video |-> "", status |-> "none", segments |-> <<>>, total_duration |-> 0,
     theodore_duration |-> 0, error |-> NoError]

TaskOff ==
    /\ task_input = TaskInput(TRUE, "none", <<>>, FALSE)
    /\ task_result = NoResult
    /\ temp_wav_exists = FALSE
    /\ task_oracle_calls = <<>>
    /\ task_pc = "off"

BatchOff ==
    /\ video_files = {}
    /\ workers = MAX_WORKERS
    /\ batch_input = <<>>
    /\ future = <<>>
    /\ results = <<>>
    /\ collected = <<>>
    /\ main_pc = "off"

EngineOff ==
    /\ engines = <<>>
    /\ instances = <<>>
    /\ model_lock = "off"
    /\ thread_pc = <<>>
    /\ thread_type = <<>>
    /\ thread_engine = <<>>
    /\ thread_op = <<>>
    /\ thread_outcome = <<>>

ReadOff ==
    /\ read_file = NoFile
    /\ read_segments = <<>>
    /\ read_pc = "off"

NoCall ==
    [fn |-> "none", subtitles |-> <<>>, words_per_highlight |-> 0,
     duration |-> 0, text_lines |-> <<>>]

HighlightOff ==
    /\ hl_call = NoCall
    /\ hl_windows = <<>>
    /\ hl_pc = "off"

\* ------------------------------------------------------------------------
\* detect_theodore.py, generate_shorts.py, chatbot.py: the commands a user
\* runs on one video at a time.  The timestamp artifact is the only state
\* that outlives a command.
\* ------------------------------------------------------------------------
DetectEnvs == {"ok", "no_voice_print", "no_video", "convert_failed"}

\* The user picks the video the next commands run on.
SelectVideo(a) ==
    /\ phase = "idle"
    /\ phase' = "selected"
    /\ audio' = a
    /\ UNCHANGED <<detect_outcome, detections, all_similarities, oracle_calls,
                   consolidated_segments, timestamps_file, extracted>>
    /\ UNCHANGED <<split_vars, group_vars, task_vars, batch_vars, engine_vars, read_vars,
                   hl_vars>>

\* What one run of detect_theodore_segments leaves behind: its scan, its
\* return value and the timestamp file (rewritten only when the run found a
\* segment, lines 236-252).
DetectRun(a, env, file) ==
    IF env # "ok"
    THEN [outcome |-> env, scan |-> ScanStart, segs |-> <<>>, file |-> file]
    ELSE LET scan == ScanAudio(a)
             segs == Consolidate(scan.detections, MIN_CONSECUTIVE_SEGMENTS)
         IN  [outcome |-> "scanned", scan |-> scan, segs |-> segs,
              file |-> IF segs # <<>> THEN WriteTimestamps(segs) ELSE file]

detect_theodore_segments(env) ==
    /\ phase = "selected"
    /\ LET run == DetectRun(audio, env, timestamps_file)
       IN  /\ detect_outcome' = run.outcome
           /\ detections' = run.scan.detections
           /\ all_similarities' = run.scan.all_similarities
           /\ oracle_calls' = run.scan.oracle_calls
           /\ consolidated_segments' = run.segs
           /\ timestamps_file' = run.file
    /\ phase' = "detected"
    /\ UNCHANGED <<audio, extracted>>
    /\ UNCHANGED <<split_vars, group_vars, task_vars, batch_vars, engine_vars, read_vars,
                   hl_vars>>

\* generate_shorts: reads the artifact, splits, renders every clip.
GenerateShortsClips(file) ==
    IF ~file.exists
    THEN <<>>
    ELSE LET segs == read_timestamps(file)
         IN  IF segs = <<>> THEN <<>> ELSE split_into_shorts(segs)

generate_shorts ==
    /\ phase \in {"selected", "detected"}
    /\ extracted' = GenerateShortsClips(timestamps_file)
    /\ phase' = "shorts"
    /\ UNCHANGED <<audio, detect_outcome, detections, all_similarities, oracle_calls,
                   consolidated_segments, timestamps_file>>
    /\ UNCHANGED <<split_vars, group_vars, task_vars, batch_vars, engine_vars, read_vars,
                   hl_vars>>

\* pipeline_complet: runs the detector as a subprocess (which may time out
\* before it has written anything), then reads the artifact and renders
\* every sequence it holds.
PipelineClips(file) ==
    IF ~file.exists THEN <<>> ELSE read_timestamps(file)

pipeline_complet(env) ==
    /\ phase = "selected"
    /\ IF env = "timeout"
       THEN /\ detect_outcome' = "timeout"
            /\ extracted' = <<>>
            /\ UNCHANGED <<detections, all_similarities, oracle_calls,
                           consolidated_segments, timestamps_file>>
       ELSE LET run == DetectRun(audio, env, timestamps_file)
            IN  /\ detect_outcome' = run.outcome
                /\ detections' = run.scan.detections
                /\ all_similarities' = run.scan.all_similarities
                /\ oracle_calls' = run.scan.oracle_calls
                /\ consolidated_segments' = run.segs
                /\ timestamps_file' = run.file
                /\ extracted' = PipelineClips(run.file)
    /\ phase' = "pipeline"
    /\ UNCHANGED audio
    /\ UNCHANGED <<split_vars, group_vars, task_vars, batch_vars, engine_vars, read_vars,
                   hl_vars>>

\* The command's process ends; only the artifact stays.
ProcessExit ==
    /\ phase \in {"detected", "shorts", "pipeline"}
    /\ phase' = "idle"
    /\ audio' = <<>>
    /\ detect_outcome' = "none"
    /\ detections' = <<>>
    /\ all_similarities' = <<>>
    /\ oracle_calls' = <<>>
    /\ consolidated_segments' = <<>>
    /\ extracted' = <<>>
    /\ UNCHANGED timestamps_file
    /\ UNCHANGED <<split_vars, group_vars, task_vars, batch_vars, engine_vars, read_vars,
                   hl_vars>>

InitDetect ==
    DetectIdle /\ SplitOff /\ GroupOff /\ TaskOff /\ BatchOff /\ EngineOff /\ ReadOff
    /\ HighlightOff

NextDetect ==
    \/ \E a \in Audios : SelectVideo(a)
    \/ \E env \in DetectEnvs : detect_theodore_segments(env)
    \/ generate_shorts
    \/ \E env \in DetectEnvs \cup {"timeout"} : pipeline_complet(env)
    \/ ProcessExit

SpecDetect == InitDetect /\ [][NextDetect]_vars

\* ------------------------------------------------------------------------
\* Claims about the single-file detector
\* ------------------------------------------------------------------------
WellFormedSegments(s) ==
    /\ \A i \in 1..Len(s) : s[i][1] >= 0 /\ s[i][2] > s[i][1]
    /\ \A i \in 1..(Len(s) - 1) : s[i][1] < s[i + 1][1] /\ s[i][2] <= s[i + 1][1]

\* C1: the segment list produced by the consolidation step is sorted strictly
\* ascending by start, pairwise non-overlapping (each segment ends no later
\* than the next one starts), and every segment has end > start >= 0.
C1_ConsolidatedSortedDisjoint == WellFormedSegments(consolidated_segments)

C1_Witness ==
    /\ phase = "detected"
    /\ Len(detections) >= 2
    /\ Len(consolidated_segments) >= 2

ScoredWindows == {p[1] : p \in Range(all_similarities)}

\* Window indices (0-based) covered by a segment list.
CoveredWindows(segs) ==
    {i \in 0..(MaxWindows + 1) :
        \E k \in 1..Len(segs) :
            /\ segs[k][1] <= i * SEGMENT_DURATION_SEC
            /\ (i + 1) * SEGMENT_DURATION_SEC <= segs[k][2]}

Scanned == phase \in {"detected", "shorts", "pipeline"} /\ detect_outcome = "scanned"

\* C8: when a detection run on a video finds no window at or above the
\* threshold, the segment list for that video is empty and the clips then
\* produced for that video (generate_shorts or pipeline_complet reading the
\* timestamp artifact) are none, whatever detection runs came before.
C8_NoMatchNoClips ==
    (Scanned /\ phase \in {"shorts", "pipeline"} /\ detections = <<>>)
        => (consolidated_segments = <<>> /\ extracted = <<>>)

\* The audio of the scan with window i (0-based) made silent.
Silenced(a, i) == [a EXCEPT ![i + 1].peak = SILENCE_PEAK - 1]

RaisingWindows(a) == {i \in 0..(Len(a) - 1) : ~IsSilent(a[i + 1]) /\ a[i + 1].raises}

\* C10: in the single-file scanner, a window on which the embedding oracle
\* raises is not a detection, every other audible window on which the oracle
\* answers is still scored, and the segment list is the one of the same scan
\* with that window silent.
C10_RaiseIsSilence ==
    Scanned =>
        \A i \in RaisingWindows(audio) :
            /\ i \notin Range(detections)
            /\ \A j \in 0..(Len(audio) - 1) :
                   (~IsSilent(audio[j + 1]) /\ ~audio[j + 1].raises) => j \in ScoredWindows
            /\ consolidated_segments =
                   Consolidate(ScanAudio(Silenced(audio, i)).detections,
                               MIN_CONSECUTIVE_SEGMENTS)

C10_Witness ==
    /\ phase = "detected"
    /\ Scanned
    /\ \E i \in RaisingWindows(audio) :
           \E j \in Range(detections) : j > i

\* C13: every interval handed to extract_short by generate_shorts or by
\* pipeline_complet is a clip of split_into_shorts applied to the segments
\* read from the artifact, and lasts between the minimum and the maximum
\* clip duration.
C13_RenderedAreClips ==
    phase \in {"shorts", "pipeline"} =>
        \A k \in 1..Len(extracted) :
            /\ extracted[k] \in Range(split_into_shorts(read_timestamps(timestamps_file)))
            /\ extracted[k][2] - extracted[k][1] >= SHORT_MIN_DURATION
            /\ extracted[k][2] - extracted[k][1] <= SHORT_MAX_DURATION

\* Segment lists of takes that run past the hour.
HourLongLists ==
    {<<<<0, 3599>>, <<3600, 3661>>>>,
     <<<<59, 60>>, <<7199, 7200>>, <<86399, 360000>>>>}

\* C14: the segment list a detection run writes to the artifact is read back
\* by read_timestamps (and by pipeline_complet) as the same (start, end)
\* pairs in the same order; so are lists whose times use the hours field.
C14_TimestampRoundTrip ==
    /\ (Scanned /\ consolidated_segments # <<>>) =>
           read_timestamps(timestamps_file) = consolidated_segments
    /\ (Scanned /\ phase = "pipeline" /\ consolidated_segments # <<>>) =>
           extracted = consolidated_segments
    /\ \A segs \in HourLongLists : read_timestamps(WriteTimestamps(segs)) = segs

C14_Witness ==
    /\ Scanned
    /\ phase = "pipeline"
    /\ Len(consolidated_segments) >= 2
    /\ \E k \in 1..Len(consolidated_segments) : consolidated_segments[k][2] > 60
    /\ extracted = consolidated_segments

\* The windows of an audio that qualify: scored, at or above the threshold.
QualifyingWindows(a) ==
    {i \in 0..(Len(a) - 1) :
        /\ ~IsSilent(a[i + 1])
        /\ ~a[i + 1].raises
        /\ a[i + 1].sim >= SIMILARITY_THRESHOLD}

\* The maximal runs (first, last) of consecutive indices of Q.
MaximalRuns(Q) ==
    {r \in Q \X Q :
        /\ r[1] <= r[2]
        /\ \A i \in r[1]..r[2] : i \in Q
        /\ (r[1] - 1) \notin Q
        /\ (r[2] + 1) \notin Q}

RunSegments(Q, m) ==
    {<<r[1] * SEGMENT_DURATION_SEC, (r[2] + 1) * SEGMENT_DURATION_SEC>> :
        r \in {x \in MaximalRuns(Q) : x[2] - x[1] + 1 >= m}}

\* segs lists every segment of RunSegments(Q, m) once, in ascending order.
ExactlyRuns(segs, Q, m) ==
    /\ Range(segs) = RunSegments(Q, m)
    /\ Len(segs) = Cardinality(RunSegments(Q, m))
    /\ \A k \in 1..(Len(segs) - 1) : segs[k][1] < segs[k + 1][1]

\* C17: the consolidation emits exactly the maximal runs of consecutive
\* qualifying windows (score at or above the threshold) that are at least
\* min_consecutive long, each as (first * 3, (last + 1) * 3), for the
\* configured minimum and for any other; windows 0, 1 and 3 give (0,6) and
\* (9,12).
C17_ExactlyMaximalRuns ==
    /\ Scanned =>
           /\ ExactlyRuns(consolidated_segments, QualifyingWindows(audio),
                          MIN_CONSECUTIVE_SEGMENTS)
           /\ \A m \in 1..MaxWindows :
                  ExactlyRuns(Consolidate(detections, m), QualifyingWindows(audio), m)
    /\ Consolidate(<<0, 1, 3>>, 1) = <<<<0, 6>>, <<9, 12>>>>

C17_Witness ==
    /\ Scanned
    /\ phase = "detected"
    /\ Len(consolidated_segments) = 2
    /\ consolidated_segments[1][2] < consolidated_segments[2][1]
    /\ consolidated_segments[2][2] - consolidated_segments[2][1] > SEGMENT_DURATION_SEC
    /\ Consolidate(detections, 2) = <<consolidated_segments[2]>>

\* ------------------------------------------------------------------------
\* split_into_shorts applied to a segment list: the list is any short list
\* of segments ending with a segment of any duration in range.
\* ------------------------------------------------------------------------
AnySegments ==
    {<<st, st + d>> : st \in 0..MaxSegStart, d \in (0 - MaxNegDuration)..MaxSegDuration}

PrefixSegments == {<<0, 2>>, <<0, 3>>, <<3, 48>>, <<0, 62>>, <<10, 85>>}

SplitInputs ==
    {<<>>} \cup
    {pre \o <<seg>> : pre \in SeqsUpTo(PrefixSegments, MaxPrefix), seg \in AnySegments}

InitSplit ==
    /\ DetectIdle
    /\ EngineOff
    /\ ReadOff
    /\ HighlightOff
    /\ GroupOff
    /\ TaskOff
    /\ BatchOff
    /\ segments \in SplitInputs
    /\ shorts = <<>>
    /\ split_pc = "input"

SplitIntoShorts ==
    /\ split_pc = "input"
    /\ shorts' = split_into_shorts(segments)
    /\ split_pc' = "done"
    /\ UNCHANGED segments
    /\ UNCHANGED <<detect_vars, group_vars, task_vars, batch_vars, engine_vars, read_vars,
                   hl_vars>>

NextSplit == SplitIntoShorts

SpecSplit == InitSplit /\ [][NextSplit]_vars

\* ------------------------------------------------------------------------
\* Claims about the clip splitter
\* ------------------------------------------------------------------------
Duration(c) == c[2] - c[1]

\* c is the last clip of a segment longer than the maximum, and it took in a
\* remainder r with 0 < r < SHORT_MIN_DURATION on top of the target length.
AbsorbedLast(c) ==
    \E k \in 1..Len(segments) :
        /\ Duration(segments[k]) > SHORT_MAX_DURATION
        /\ c[2] = segments[k][2]
        /\ c[1] >= segments[k][1]
        /\ Duration(c) - SHORT_TARGET_DURATION \in 1..(SHORT_MIN_DURATION - 1)

\* C2 as stated: every clip lasts between the minimum and the maximum; a clip
\* longer than the target is the last clip of a split segment that absorbed a
\* sub-minimum remainder; no clip exceeds maximum + minimum.
C2_Original ==
    \A k \in 1..Len(shorts) :
        /\ Duration(shorts[k]) >= SHORT_MIN_DURATION
        /\ Duration(shorts[k]) <= SHORT_MAX_DURATION
        /\ Duration(shorts[k]) <= SHORT_MAX_DURATION + SHORT_MIN_DURATION
        /\ Duration(shorts[k]) > SHORT_TARGET_DURATION => AbsorbedLast(shorts[k])

\* C2 amended: every clip lasts between the minimum and the maximum; a clip
\* longer than the target is either a whole segment no longer than the
\* maximum, emitted unsplit, or the last clip of a split segment that
\* absorbed a sub-minimum remainder.
C2_ClipDurationBounds ==
    \A k \in 1..Len(shorts) :
        /\ Duration(shorts[k]) >= SHORT_MIN_DURATION
        /\ Duration(shorts[k]) <= SHORT_MAX_DURATION
        /\ Duration(shorts[k]) > SHORT_TARGET_DURATION =>
               \/ \E j \in 1..Len(segments) : segments[j] = shorts[k]
               \/ AbsorbedLast(shorts[k])

C2_Witness ==
    /\ split_pc = "done"
    /\ \E k \in 1..Len(shorts) : AbsorbedLast(shorts[k])
    /\ \E k \in 1..Len(shorts) : Duration(shorts[k]) = SHORT_MAX_DURATION

\* C12: split_into_shorts does not return a clip list for an input holding a
\* segment of negative duration (end < start); it rejects the input with an
\* error instead of dropping the segment.
C12_NegativeDurationRejected ==
    split_pc = "done" =>
        \A k \in 1..Len(segments) : segments[k][2] >= segments[k][1]

\* C15: split_into_shorts applied to its own output, each clip taken as a
\* segment, returns that output unchanged: same clips, same order.
C15_SplitIdempotent ==
    split_pc = "done" => split_into_shorts(shorts) = shorts

C15_Witness ==
    /\ split_pc = "done"
    /\ Len(shorts) >= 3
    /\ shorts # segments
    /\ \E k \in 1..Len(shorts) : AbsorbedLast(shorts[k])
    /\ split_into_shorts(shorts) = shorts

\* The clips of the output that come from segments[k]: the output is the
\* concatenation, in order, of what each segment yields.
ClipsBefore(k) == Len(split_into_shorts(SubSeq(segments, 1, k - 1)))

ClipsOf(k) == SubSeq(shorts, ClipsBefore(k) + 1, ClipsBefore(k + 1))

LongSegments == {k \in 1..Len(segments) : Duration(segments[k]) > SHORT_MAX_DURATION}

\* C18: the clips emitted for a segment longer than the maximum tile it
\* exactly: the first starts at the segment start, each next one starts where
\* the previous one ended, the last ends at the segment end.
C18_ClipsTileSegment ==
    split_pc = "done" =>
        /\ ClipsBefore(Len(segments) + 1) = Len(shorts)
        /\ \A k \in LongSegments :
               LET c == ClipsOf(k)
               IN  /\ Len(c) >= 2
                   /\ c[1][1] = segments[k][1]
                   /\ c[Len(c)][2] = segments[k][2]
                   /\ \A j \in 1..Len(c) : c[j][1] < c[j][2]
                   /\ \A j \in 1..(Len(c) - 1) : c[j + 1][1] = c[j][2]

C18_Witness ==
    /\ split_pc = "done"
    /\ Cardinality(LongSegments) = 2
    /\ \E k \in LongSegments : Len(ClipsOf(k)) = 4
    /\ \E k \in LongSegments : AbsorbedLast(ClipsOf(k)[Len(ClipsOf(k))])

\* C19: cutting a segment longer than the maximum into target-length slices,
\* a last remainder r with 0 < r < minimum is taken into the slice before it
\* (no clip of its own), and a remainder r >= minimum, r = minimum included,
\* is a clip of its own; (0,75) gives (0,30),(30,60),(60,75) and (0,62) gives
\* (0,30),(30,62).
C19_RemainderAbsorption ==
    split_pc = "done" =>
        /\ \A k \in LongSegments :
               LET c == ClipsOf(k)
                   n == Duration(segments[k]) \div SHORT_TARGET_DURATION
                   r == Duration(segments[k]) % SHORT_TARGET_DURATION
               IN  /\ \A j \in 1..(Len(c) - 1) : Duration(c[j]) = SHORT_TARGET_DURATION
                   /\ r = 0 =>
                          Len(c) = n /\ Duration(c[Len(c)]) = SHORT_TARGET_DURATION
                   /\ (r > 0 /\ r < SHORT_MIN_DURATION) =>
                          Len(c) = n /\ Duration(c[Len(c)]) = SHORT_TARGET_DURATION + r
                   /\ r >= SHORT_MIN_DURATION =>
                          Len(c) = n + 1 /\ Duration(c[Len(c)]) = r
        /\ segments = <<<<0, 75>>>> => shorts = <<<<0, 30>>, <<30, 60>>, <<60, 75>>>>
        /\ segments = <<<<0, 62>>>> => shorts = <<<<0, 30>>, <<30, 62>>>>

C19_Witness ==
    /\ split_pc = "done"
    /\ Len(segments) = 2
    /\ Duration(segments[1]) = 2 * SHORT_TARGET_DURATION + SHORT_MIN_DURATION - 1
    /\ Duration(segments[2]) = 2 * SHORT_TARGET_DURATION + SHORT_MIN_DURATION
    /\ Len(ClipsOf(1)) = 2
    /\ Len(ClipsOf(2)) = 3

\* C20: a segment of duration between 0 and the maximum yields exactly one
\* clip, the segment itself, when it lasts at least the minimum (a duration
\* equal to the minimum or to the maximum included) and no clip otherwise;
\* the clips of the output follow the order of the segments.
C20_ShortSegmentKeptOrDropped ==
    split_pc = "done" =>
        /\ ClipsBefore(Len(segments) + 1) = Len(shorts)
        /\ \A k \in 1..Len(segments) :
               (Duration(segments[k]) >= 0 /\ Duration(segments[k]) <= SHORT_MAX_DURATION) =>
                   ClipsOf(k) = IF Duration(segments[k]) >= SHORT_MIN_DURATION
                                THEN <<segments[k]>>
                                ELSE <<>>

C20_Witness ==
    /\ split_pc = "done"
    /\ Len(segments) = 2
    /\ Duration(segments[1]) = SHORT_MIN_DURATION
    /\ Duration(segments[2]) = SHORT_MAX_DURATION
    /\ segments[1] # segments[2]
    /\ shorts = segments

\* ------------------------------------------------------------------------
\* group_words_for_display applied to an ordered word list: word starts
\* ascend, a word lasts 0, 0.05 or 0.20 s, the k-th word's text is "w<k>".
\* ------------------------------------------------------------------------
WordTimes == {5 * t : t \in 0..MaxTick}

WordDurations == {0, 5, 20}

\* The lists of at most n (start, duration) pairs whose starts ascend from
\* min_start on.
RECURSIVE WordListsFrom(_, _)
WordListsFrom(n, min_start) ==
    IF n = 0
    THEN {<<>>}
    ELSE {<<>>} \cup
         UNION {{<<<<st, d>>>> \o rest : rest \in WordListsFrom(n - 1, st)} :
                    st \in {t \in WordTimes : t >= min_start}, d \in WordDurations}

WordLists == WordListsFrom(MaxWords, 0)

WordsOf(ws) == [k \in 1..Len(ws) |-> <<ws[k][1], ws[k][1] + ws[k][2], "w" \o ToString(k)>>]

InitGroup ==
    /\ DetectIdle
    /\ EngineOff
    /\ ReadOff
    /\ HighlightOff
    /\ SplitOff
    /\ TaskOff
    /\ BatchOff
    /\ word_timestamps \in {WordsOf(ws) : ws \in WordLists}
    /\ words_per_group \in 1..WORDS_PER_GROUP
    /\ raw_groups = <<>>
    /\ groups = <<>>
    /\ group_pc = "input"

GroupWordsForDisplay ==
    /\ group_pc = "input"
    /\ raw_groups' = RawGroups(word_timestamps, words_per_group)
    /\ groups' = group_words_for_display(word_timestamps, words_per_group)
    /\ group_pc' = "done"
    /\ UNCHANGED <<word_timestamps, words_per_group>>
    /\ UNCHANGED <<detect_vars, split_vars, task_vars, batch_vars, engine_vars, read_vars,
                   hl_vars>>

NextGroup == GroupWordsForDisplay

SpecGroup == InitGroup /\ [][NextGroup]_vars

\* ------------------------------------------------------------------------
\* Claims about the subtitle grouper
\* ------------------------------------------------------------------------
\* C3: in the output of group_words_for_display no group starts before the
\* previous group ends; the overlap sweep changes only starts (the number of
\* groups, every end and every text are as built), and only forward: the
\* first group is untouched and a moved start is the previous group's end.
C3_NoOverlapStartsOnly ==
    group_pc = "done" =>
        /\ \A i \in 2..Len(groups) : groups[i][1] >= groups[i - 1][2]
        /\ Len(groups) = Len(raw_groups)
        /\ \A i \in 1..Len(groups) :
               /\ groups[i][2] = raw_groups[i][2]
               /\ groups[i][3] = raw_groups[i][3]
        /\ Len(groups) >= 1 => groups[1] = raw_groups[1]
        /\ \A i \in 2..Len(groups) :
               groups[i][1] \in {raw_groups[i][1], raw_groups[i - 1][2]}

C3_Witness ==
    /\ group_pc = "done"
    /\ Len(groups) >= 3
    /\ \E i \in 2..Len(groups) : groups[i][1] # raw_groups[i][1]
    /\ \E i \in 2..Len(groups) : groups[i][1] = raw_groups[i][1]

\* C4: every emitted group has a strictly positive duration, and the
\* overlap sweep drops no group.
C4_PositiveDuration ==
    group_pc = "done" =>
        /\ Len(groups) = Len(raw_groups)
        /\ \A i \in 1..Len(groups) : groups[i][2] > groups[i][1]

\* The g-th chunk of words_per_group consecutive words (the last may be
\* shorter).
Chunk(words, g, wpg) ==
    SubSeq(words, (g - 1) * wpg + 1, Min(g * wpg, Len(words)))

RECURSIVE TextLength(_, _)
TextLength(ws, k) ==
    IF k > Len(ws) THEN 0 ELSE Len(ws[k][3]) + TextLength(ws, k + 1)

\* Seven words 0.2 s apart, each 0.2 s long.
SevenWords == [k \in 1..7 |-> <<20 * (k - 1), 20 * k, "w" \o ToString(k)>>]

\* C21: the n words are cut, in order, into ceil(n / words_per_group) groups
\* of consecutive words: every group but the last has words_per_group words,
\* the last the rest; a group's text is its words in input order separated by
\* single spaces and it starts as built at its first word; no word gives no
\* group, and seven words in groups of four give two groups.
C21_GroupsPartitionWords ==
    /\ group_pc = "done" =>
           LET n == Len(word_timestamps)
               wpg == words_per_group
           IN  /\ Len(groups) = (n + wpg - 1) \div wpg
               /\ Len(raw_groups) = Len(groups)
               /\ \A g \in 1..Len(groups) :
                      LET c == Chunk(word_timestamps, g, wpg)
                      IN  /\ Len(c) >= 1
                          /\ g < Len(groups) => Len(c) = wpg
                          /\ groups[g][3] = JoinWords(c, 1)
                          /\ Len(groups[g][3]) = TextLength(c, 1) + Len(c) - 1
                          /\ raw_groups[g][1] = c[1][1]
    /\ Len(group_words_for_display(SevenWords, 4)) = 2
    /\ group_words_for_display(SevenWords, 4)[2][3] = "w5 w6 w7"

C21_Witness ==
    /\ group_pc = "done"
    /\ Len(word_timestamps) = 4
    /\ words_per_group = 3
    /\ Len(groups) = 2
    /\ groups[1][3] = "w1 w2 w3"
    /\ groups[2][3] = "w4"

\* The end a chunk of k words must get: the later of its last word's end and
\* its first word's start plus k minimum word durations.
FlooredEnd(c) ==
    LET floor == c[1][1] + MIN_WORD_DURATION * Len(c)
    IN  IF c[Len(c)][2] >= floor THEN c[Len(c)][2] ELSE floor

\* C22: the end of every emitted group, full or last partial chunk of k
\* words, is max(last word's end, first word's start + MIN_WORD_DURATION * k),
\* also when the overlap sweep has moved the group's start.
C22_MinimumDurationFloor ==
    group_pc = "done" =>
        \A g \in 1..Len(groups) :
            groups[g][2] = FlooredEnd(Chunk(word_timestamps, g, words_per_group))

C22_Witness ==
    /\ group_pc = "done"
    /\ \E g \in 1..Len(groups) :
           LET c == Chunk(word_timestamps, g, words_per_group)
           IN  /\ Len(c) >= 2
               /\ groups[g][2] > c[Len(c)][2]
               /\ groups[g][1] > raw_groups[g][1]
               /\ groups[g][2] > groups[g][1]
               /\ groups[g][2] - groups[g][1] < MIN_WORD_DURATION * Len(c)
    /\ \E g \in 1..Len(groups) :
           groups[g][2] = word_timestamps[Len(word_timestamps)][2]

\* ------------------------------------------------------------------------
\* One task of the batch worker on any input.
\* ------------------------------------------------------------------------
InitTask ==
    /\ DetectIdle
    /\ EngineOff
    /\ ReadOff
    /\ HighlightOff
    /\ SplitOff
    /\ GroupOff
    /\ BatchOff
    /\ task_input \in TaskInputsWithTail(Audios)
    /\ task_result = NoResult
    /\ temp_wav_exists = FALSE
    /\ task_oracle_calls = <<>>
    /\ task_pc = "input"

RunTask ==
    /\ task_pc = "input"
    /\ LET run == analyze_single_video("a/x.mp4", task_input)
       IN  /\ task_result' = run.result
           /\ temp_wav_exists' = run.temp_wav
           /\ task_oracle_calls' = run.oracle_calls
    /\ task_pc' = "returned"
    /\ UNCHANGED task_input
    /\ UNCHANGED <<detect_vars, split_vars, group_vars, batch_vars, engine_vars, read_vars,
                   hl_vars>>

NextTask == RunTask

SpecTask == InitTask /\ [][NextTask]_vars

\* ------------------------------------------------------------------------
\* Claims about the batch worker and the silence rule
\* ------------------------------------------------------------------------
\* C7: once the temporary WAV of a task has been written, the task does not
\* return (with status success or error) while the file still exists.
C7_TempRemovedOnReturn ==
    task_pc = "returned" => ~temp_wav_exists

SilentWindows(a) == {i \in 0..(Len(a) - 1) : IsSilent(a[i + 1])}

SilentSkippedSingleFile ==
    Scanned =>
        \A i \in SilentWindows(audio) :
            /\ i \notin Range(oracle_calls)
            /\ i \notin ScoredWindows
            /\ i \notin CoveredWindows(consolidated_segments)

SilentSkippedBatchWorker ==
    task_pc = "returned" =>
        \A i \in SilentWindows(task_input.audio) :
            /\ i \notin Range(task_oracle_calls)
            /\ i \notin CoveredWindows(task_result.segments)

\* C9: in the single-file scanner and in the batch worker, a window whose
\* peak amplitude is below the silence threshold is never handed to the
\* embedding oracle, gets no score and is in no emitted segment.
C9_SilentNeverScored == SilentSkippedSingleFile /\ SilentSkippedBatchWorker

\* The audio with every window on which the oracle raises taken as absent
\* (scored, and not a match).
WithoutRaising(a) ==
    [k \in 1..Len(a) |->
        IF a[k].raises
        THEN [peak |-> a[k].peak, raises |-> FALSE, sim |-> SIMILARITY_THRESHOLD - 1]
        ELSE a[k]]

\* C11: in the batch worker, when the oracle raises on a window of an input
\* that is otherwise analysable, the other windows are still handed to the
\* oracle and the result is a success, without error, whose segments are
\* those of the other matching windows.
C11_OracleFailureRecovered ==
    (/\ task_pc = "returned"
     /\ task_input.voice_print
     /\ task_input.fault = "none"
     /\ ~task_input.remove_raises
     /\ \E k \in 1..Len(task_input.audio) : task_input.audio[k].raises)
        => /\ task_result.status = "success"
           /\ task_result.error = NoError
           /\ task_result.segments =
                  BatchConsolidate(BatchScan(WithoutRaising(task_input.audio)).matches)
           /\ \A k \in 1..Len(task_input.audio) :
                  ~task_input.audio[k].raises => (k - 1) \in Range(task_oracle_calls)

\* C27: every result the batch worker returns is consistent: its status is
\* "success" exactly when its error field is None, and a result with status
\* "error" has no segments, whichever way analyze_single_video was left,
\* removal of the temporary file failing included.
C27_ResultConsistent ==
    task_pc = "returned" =>
        /\ (task_result.status = "success") <=> (task_result.error = NoError)
        /\ task_result.status = "error" => task_result.segments = <<>>

\* Lines 140-144 of the batch worker: the match of window i.
MatchesOf(d) ==
    [k \in 1..Len(d) |->
        <<d[k] * SEGMENT_DURATION_SEC, (d[k] + 1) * SEGMENT_DURATION_SEC>>]

\* C28: on the same ascending matching window indices, with one window
\* enough for a segment, the batch worker's consolidation (merge when the
\* next match starts no later than the running end) and the single-file
\* scanner's (merge when the index follows the running end) give the same
\* list of (start, end) segments.
C28_ConsolidationsAgree ==
    Scanned =>
        BatchConsolidate(MatchesOf(detections)) = Consolidate(detections, 1)

\* Adjacent windows merged and a gap kept, by both.
C28_Witness ==
    /\ Scanned
    /\ Len(detections) >= 3
    /\ Len(Consolidate(detections, 1)) = 2
    /\ BatchConsolidate(MatchesOf(detections)) = Consolidate(detections, 1)

\* What the single-file scanner does with the task's signal.
SingleFileScan ==
    ScanAudio(WindowsOfSignal(
        task_input.audio,
        total_segments(TotalDuration(task_input.audio, task_input.tail))))

WithinTimeline(segs, limit) ==
    \A k \in 1..Len(segs) : 0 <= segs[k][1] /\ segs[k][1] <= segs[k][2] /\ segs[k][2] <= limit

\* The bounds of C29 without the window count: no window past
\* floor(D / windowDuration) is handed to the oracle, every segment lies
\* within the whole windows, the matched duration is at most the total one.
ScanWithinTimeline ==
    (task_pc = "returned" /\ task_input.voice_print /\ task_input.fault = "none") =>
        LET D == TotalDuration(task_input.audio, task_input.tail)
            n == D \div SEGMENT_DURATION_SEC
            single == Consolidate(SingleFileScan.detections, MIN_CONSECUTIVE_SEGMENTS)
        IN  /\ Range(task_oracle_calls) \subseteq 0..(n - 1)
            /\ WithinTimeline(task_result.segments, n * SEGMENT_DURATION_SEC)
            /\ task_result.theodore_duration <= task_result.total_duration
            /\ task_result.total_duration = D
            /\ Range(SingleFileScan.oracle_calls) \cup SilentWindows(task_input.audio)
                   = 0..(n - 1)
            /\ WithinTimeline(single, n * SEGMENT_DURATION_SEC)
            /\ SumDurations(single, 1) <= D

\* C29: for every scan of a timeline of duration D, exactly
\* floor(D / windowDuration) windows are considered, every emitted segment
\* lies within [0, floor(D / windowDuration) * windowDuration], and so the
\* reported matched duration never exceeds the reported total duration.
C29_WindowsAndDurations ==
    /\ ScanWithinTimeline
    /\ (task_pc = "returned" /\ task_input.voice_print /\ task_input.fault = "none") =>
           Len(task_oracle_calls) =
               TotalDuration(task_input.audio, task_input.tail) \div SEGMENT_DURATION_SEC

\* ------------------------------------------------------------------------
\* detect_batch.py: main.  Every video is submitted to a pool of `workers`
\* processes; results are collected as the futures complete.
\* ------------------------------------------------------------------------
Videos == {"a/x.mp4", "a/y.mp4", "b/x.mp4"}

AudibleWindow(raises, sim) == [peak |-> SILENCE_PEAK, raises |-> raises, sim |-> sim]

BatchAudios ==
    {<<AudibleWindow(FALSE, SIMILARITY_THRESHOLD)>>,
     <<AudibleWindow(FALSE, SIMILARITY_THRESHOLD - 1)>>,
     <<AudibleWindow(TRUE, 0)>>}

BatchInputs ==
    {TaskInput(FALSE, "none", <<>>, FALSE), TaskInput(TRUE, "from_file_raises", <<>>, FALSE)}
        \cup {TaskInput(TRUE, "none", a, FALSE) : a \in BatchAudios}
        \cup {TaskInput(TRUE, "none", <<AudibleWindow(FALSE, SIMILARITY_THRESHOLD)>>, TRUE)}

Pending == [state |-> "pending", result |-> NoResult]

InitBatch ==
    /\ DetectIdle
    /\ EngineOff
    /\ ReadOff
    /\ HighlightOff
    /\ SplitOff
    /\ GroupOff
    /\ TaskOff
    /\ video_files \in (SUBSET Videos) \ {{}}
    /\ workers \in 1..MAX_WORKERS
    /\ batch_input \in [video_files -> BatchInputs]
    /\ future = <<>>
    /\ results = <<>>
    /\ collected = <<>>
    /\ main_pc = "start"

\* Lines 274-279: one future per video.
SubmitAll ==
    /\ main_pc = "start"
    /\ future' = [v \in video_files |-> Pending]
    /\ main_pc' = "collecting"
    /\ UNCHANGED <<video_files, workers, batch_input, results, collected>>
    /\ UNCHANGED <<detect_vars, split_vars, group_vars, task_vars, engine_vars, read_vars,
                   hl_vars>>

\* The tasks that hold a worker process: a task that never returns keeps its
\* worker.
Running == {v \in DOMAIN future : future[v].state \in {"running", "hung"}}

\* A free worker process takes a queued task.
StartTask(v) ==
    /\ main_pc = "collecting"
    /\ future[v].state = "pending"
    /\ Cardinality(Running) < workers
    /\ future' = [future EXCEPT ![v].state = "running"]
    /\ UNCHANGED <<video_files, workers, batch_input, results, collected, main_pc>>
    /\ UNCHANGED <<detect_vars, split_vars, group_vars, task_vars, engine_vars, read_vars,
                   hl_vars>>

\* The task returns its dictionary.
FinishTask(v) ==
    /\ main_pc = "collecting"
    /\ future[v].state = "running"
    /\ future' = [future EXCEPT
                     ![v] = [state |-> "finished",
                             result |-> analyze_single_video(v, batch_input[v]).result]]
    /\ UNCHANGED <<video_files, workers, batch_input, results, collected, main_pc>>
    /\ UNCHANGED <<detect_vars, split_vars, group_vars, task_vars, engine_vars, read_vars,
                   hl_vars>>

\* The future of this task gets an exception instead of a result.
TaskRaises(v) ==
    /\ main_pc = "collecting"
    /\ future[v].state = "running"
    /\ future' = [future EXCEPT ![v].state = "raised"]
    /\ UNCHANGED <<video_files, workers, batch_input, results, collected, main_pc>>
    /\ UNCHANGED <<detect_vars, split_vars, group_vars, task_vars, engine_vars, read_vars,
                   hl_vars>>

\* The task never returns (a blocked ffmpeg or model call); nothing in
\* lines 274-283 bounds the wait for its future.
TaskHangs(v) ==
    /\ main_pc = "collecting"
    /\ future[v].state = "running"
    /\ future' = [future EXCEPT ![v].state = "hung"]
    /\ UNCHANGED <<video_files, workers, batch_input, results, collected, main_pc>>
    /\ UNCHANGED <<detect_vars, split_vars, group_vars, task_vars, engine_vars, read_vars,
                   hl_vars>>

\* Variant: the result built for a raised future does not name its video.
SyntheticErrorUnnamed(video) ==
    [video |-> "", status |-> "error", segments |-> <<>>,
     total_duration |-> 0, theodore_duration |-> 0, error |-> ExceptionText]

\* Variant: the result built for a raised future keeps a success status.
SyntheticErrorAsSuccess(video) ==
    [video |-> Basename(video), status |-> "success", segments |-> <<>>,
     total_duration |-> 0, theodore_duration |-> 0, error |-> ExceptionText]

\* Lines 302-309: the result main builds when future.result() raises.
SyntheticError(video) ==
    [video |-> Basename(video), status |-> "error", segments |-> <<>>,
     total_duration |-> 0, theodore_duration |-> 0, error |-> ExceptionText]

\* Variant: a future that raised is reported and not recorded.
AppendOutcomeSkipRaised(res, video, fut) ==
    IF fut.state = "finished" THEN Append(res, fut.result) ELSE res

\* Lines 287-309: what one iteration of the as_completed loop appends.
AppendOutcome(res, video, fut) ==
    IF fut.state = "finished"
    THEN Append(res, fut.result)
    ELSE Append(res, SyntheticError(video))

Collect(v) ==
    /\ main_pc = "collecting"
    /\ future[v].state \in {"finished", "raised"}
    /\ v \notin Range(collected)
    /\ results' = AppendOutcome(results, v, future[v])
    /\ collected' = Append(collected, v)
    /\ UNCHANGED <<video_files, workers, batch_input, future, main_pc>>
    /\ UNCHANGED <<detect_vars, split_vars, group_vars, task_vars, engine_vars, read_vars,
                   hl_vars>>

\* as_completed is exhausted; the pool is shut down and the results saved.
SaveResults ==
    /\ main_pc = "collecting"
    /\ \A v \in video_files : v \in Range(collected)
    /\ main_pc' = "saved"
    /\ UNCHANGED <<video_files, workers, batch_input, future, results, collected>>
    /\ UNCHANGED <<detect_vars, split_vars, group_vars, task_vars, engine_vars, read_vars,
                   hl_vars>>

\* chatbot.py, analyser_batch: the batch runs as a subprocess that is killed
\* after an hour; what it had collected is lost with it and the caller gets
\* a timeout message.
BatchTimeout ==
    /\ main_pc = "collecting"
    /\ main_pc' = "timeout"
    /\ future' = <<>>
    /\ results' = <<>>
    /\ collected' = <<>>
    /\ UNCHANGED <<video_files, workers, batch_input>>
    /\ UNCHANGED <<detect_vars, split_vars, group_vars, task_vars, engine_vars, read_vars,
                   hl_vars>>

\* The steps of the batch process itself and of its tasks.
BatchStep ==
    \/ SubmitAll
    \/ \E v \in video_files : StartTask(v)
    \/ \E v \in video_files : FinishTask(v)
    \/ \E v \in video_files : TaskRaises(v)
    \/ \E v \in video_files : TaskHangs(v)
    \/ \E v \in video_files : Collect(v)
    \/ SaveResults

NextBatch ==
    \/ BatchStep
    \/ BatchTimeout

SpecBatch == InitBatch /\ [][NextBatch]_vars

\* ------------------------------------------------------------------------
\* Claims about the batch coordinator
\* ------------------------------------------------------------------------
\* C5: whatever each input's outcome (the worker returns success, returns an
\* error result, or its future raises), the collected list holds exactly one
\* result per submitted input.
C5_OneResultPerInput ==
    main_pc = "saved" =>
        /\ Len(results) = Cardinality(video_files)
        /\ Len(collected) = Len(results)
        /\ \A v \in video_files :
               Cardinality({k \in 1..Len(collected) : collected[k] = v}) = 1
        /\ \A k \in 1..Len(results) : results[k].video = Basename(collected[k])

C5_Witness ==
    /\ main_pc = "saved"
    /\ Cardinality(video_files) = 3
    /\ \E k \in 1..Len(results) :
           future[collected[k]].state = "raised" /\ results[k].status = "error"
    /\ \E k \in 1..Len(results) :
           future[collected[k]].state = "finished" /\ results[k].status = "error"
    /\ \E k \in 1..Len(results) : results[k].status = "success"

\* The input cannot be analysed: no voice print, a loading or decoding call
\* that raises, or a window on which the oracle raises.  (A failure to
\* remove the temporary WAV comes after the analysis and is not one.)
FaultyInput(inp) ==
    \/ ~inp.voice_print
    \/ inp.fault # "none"
    \/ \E i \in 1..Len(inp.audio) : inp.audio[i].raises

FailedInputs ==
    {v \in video_files : future[v].state = "raised" \/ FaultyInput(batch_input[v])}

\* C6: in a batch where exactly the inputs of a set F fail, the results of
\* the inputs in F have status error with a reason, every other input has
\* status success, and its segments are those of the same input analysed
\* alone.
C6_FailureIsolated ==
    main_pc = "saved" =>
        \A k \in 1..Len(results) :
            IF collected[k] \in FailedInputs
            THEN /\ results[k].status = "error"
                 /\ results[k].error # NoError
            ELSE /\ results[k].status = "success"
                 /\ results[k].segments =
                        analyze_single_video(collected[k],
                                             batch_input[collected[k]]).result.segments

C6_Witness ==
    /\ main_pc = "saved"
    /\ Cardinality(video_files) = 3
    /\ Cardinality(FailedInputs) = 1
    /\ \E v \in FailedInputs : ~batch_input[v].voice_print
    /\ \A k \in 1..Len(results) :
           collected[k] \notin FailedInputs => results[k].segments # <<>>
    /\ Len(results) = 3

\* What a result says about its input.
ResultKey(r) == <<r.video, r.status, r.segments>>

\* The result of input v, given what its task finds and whether its future
\* raises: nothing in it depends on when the task completes.
ExpectedResult(v) ==
    IF future[v].state = "raised"
    THEN SyntheticError(v)
    ELSE analyze_single_video(v, batch_input[v]).result

\* C23: in whatever order the tasks complete, each collected result, the one
\* built for a raised future included, names the input whose task produced it,
\* and the collected (video, status, segments) results are those of the
\* inputs, whatever the order.
C23_AttributionAnyOrder ==
    main_pc = "saved" =>
        /\ \A k \in 1..Len(results) :
               /\ results[k].video = Basename(collected[k])
               /\ ResultKey(results[k]) = ResultKey(ExpectedResult(collected[k]))
        /\ {ResultKey(results[k]) : k \in 1..Len(results)} =
               {ResultKey(ExpectedResult(v)) : v \in video_files}

C23_Witness ==
    /\ main_pc = "saved"
    /\ collected = <<"a/y.mp4", "b/x.mp4", "a/x.mp4">>
    /\ future["b/x.mp4"].state = "raised"
    /\ results[1].status = "success"
    /\ results[1].segments # <<>>
    /\ results[2].video = "x.mp4"
    /\ results[3].status = "error"
    /\ results[3].error = VoicePrintMissing

\* C16: the batch run always completes with its collected results: while it
\* is collecting it can always take a step (it never blocks on a task that
\* does not finish), and it never ends on a timeout that discards the
\* results.
C16_BatchAlwaysCompletes ==
    /\ main_pc = "collecting" => ENABLED BatchStep
    /\ main_pc # "timeout"

\* ------------------------------------------------------------------------
\* transcription_engine.py: get_engine and the model calls of an engine, as
\* run by the threads of one process.  An instance is the index of its record
\* in `instances`.
\* ------------------------------------------------------------------------
Threads == {"t1", "t2"}

MODEL_TYPES == {"fast", "precise"}

RequestedTypes == MODEL_TYPES \cup {"turbo"}

\* Lines 415-416.
Normalise(model_type) ==
    IF model_type \notin MODEL_TYPES THEN "precise" ELSE model_type

NoEngine == 0

Free == "free"

InitEngine ==
    /\ DetectIdle
    /\ ReadOff
    /\ HighlightOff
    /\ SplitOff
    /\ GroupOff
    /\ TaskOff
    /\ BatchOff
    /\ engines = [ty \in MODEL_TYPES |-> NoEngine]
    /\ instances = <<>>
    /\ model_lock = Free
    /\ thread_pc = [t \in Threads |-> "idle"]
    /\ thread_type = [t \in Threads |-> "precise"]
    /\ thread_engine = [t \in Threads |-> NoEngine]
    /\ thread_op = [t \in Threads |-> "transcribe"]
    /\ thread_outcome = [t \in Threads |-> "none"]

\* get_engine, lines 415-418: the type is normalised and looked up.
GetEngineCheck(t, model_type) ==
    /\ thread_pc[t] = "idle"
    /\ thread_type' = [thread_type EXCEPT ![t] = model_type]
    /\ thread_pc' = [thread_pc EXCEPT
                        ![t] = IF engines[Normalise(model_type)] = NoEngine
                               THEN "constructing"
                               ELSE "returning"]
    /\ UNCHANGED <<engines, instances, model_lock, thread_engine, thread_op,
                   thread_outcome>>
    /\ UNCHANGED <<detect_vars, split_vars, group_vars, task_vars, batch_vars, read_vars,
                   hl_vars>>

\* Lines 419-421: the constructor has run (its model loaded or not, lines
\* 174-195) and the new instance is stored under the type.
GetEngineConstruct(t, loaded) ==
    /\ thread_pc[t] = "constructing"
    /\ instances' = Append(instances,
                           [model_type |-> Normalise(thread_type[t]), loaded |-> loaded])
    /\ engines' = [engines EXCEPT ![Normalise(thread_type[t])] = Len(instances) + 1]
    /\ thread_pc' = [thread_pc EXCEPT ![t] = "returning"]
    /\ UNCHANGED <<model_lock, thread_type, thread_engine, thread_op, thread_outcome>>
    /\ UNCHANGED <<detect_vars, split_vars, group_vars, task_vars, batch_vars, read_vars,
                   hl_vars>>

\* Line 423: return _engines[model_type].
GetEngineReturn(t) ==
    /\ thread_pc[t] = "returning"
    /\ thread_engine' = [thread_engine EXCEPT ![t] = engines[Normalise(thread_type[t])]]
    /\ thread_pc' = [thread_pc EXCEPT ![t] = "ready"]
    /\ UNCHANGED <<engines, instances, model_lock, thread_type, thread_op,
                   thread_outcome>>
    /\ UNCHANGED <<detect_vars, split_vars, group_vars, task_vars, batch_vars, read_vars,
                   hl_vars>>

\* transcribe / transcribe_words up to the with statement: an engine whose
\* model did not load returns [] at once.
TranscribeCall(t, op) ==
    /\ thread_pc[t] = "ready"
    /\ thread_op' = [thread_op EXCEPT ![t] = op]
    /\ IF instances[thread_engine[t]].loaded
       THEN /\ thread_pc' = [thread_pc EXCEPT ![t] = "acquiring"]
            /\ UNCHANGED thread_outcome
       ELSE /\ thread_outcome' = [thread_outcome EXCEPT ![t] = "no_model"]
            /\ UNCHANGED thread_pc
    /\ UNCHANGED <<engines, instances, model_lock, thread_type, thread_engine>>
    /\ UNCHANGED <<detect_vars, split_vars, group_vars, task_vars, batch_vars, read_vars,
                   hl_vars>>

\* with _model_lock: the thread enters once the lock is free.
AcquireLock(t) ==
    /\ thread_pc[t] = "acquiring"
    /\ model_lock = Free
    /\ model_lock' = t
    /\ thread_pc' = [thread_pc EXCEPT ![t] = "in_model"]
    /\ UNCHANGED <<engines, instances, thread_type, thread_engine, thread_op,
                   thread_outcome>>
    /\ UNCHANGED <<detect_vars, split_vars, group_vars, task_vars, batch_vars, read_vars,
                   hl_vars>>

\* The model call and the iteration over its segments end; the return
\* statement leaves the with block.
ModelCallReturns(t) ==
    /\ thread_pc[t] = "in_model"
    /\ model_lock' = Free
    /\ thread_outcome' = [thread_outcome EXCEPT ![t] = "returned"]
    /\ thread_pc' = [thread_pc EXCEPT ![t] = "ready"]
    /\ UNCHANGED <<engines, instances, thread_type, thread_engine, thread_op>>
    /\ UNCHANGED <<detect_vars, split_vars, group_vars, task_vars, batch_vars, read_vars,
                   hl_vars>>

\* Variant: an exception leaves the lock held.
ModelCallRaisesKeepLock(t) ==
    /\ thread_pc[t] = "in_model"
    /\ thread_outcome' = [thread_outcome EXCEPT ![t] = "raised"]
    /\ thread_pc' = [thread_pc EXCEPT ![t] = "ready"]
    /\ UNCHANGED <<engines, instances, model_lock, thread_type, thread_engine, thread_op>>
    /\ UNCHANGED <<detect_vars, split_vars, group_vars, task_vars, batch_vars, read_vars,
                   hl_vars>>

\* The model call or the iteration raises: the with block is left, the
\* except clause returns [].
ModelCallRaises(t) ==
    /\ thread_pc[t] = "in_model"
    /\ model_lock' = Free
    /\ thread_outcome' = [thread_outcome EXCEPT ![t] = "raised"]
    /\ thread_pc' = [thread_pc EXCEPT ![t] = "ready"]
    /\ UNCHANGED <<engines, instances, thread_type, thread_engine, thread_op>>
    /\ UNCHANGED <<detect_vars, split_vars, group_vars, task_vars, batch_vars, read_vars,
                   hl_vars>>

\* The caller is done with the engine it got.
ReleaseEngine(t) ==
    /\ thread_pc[t] = "ready"
    /\ thread_engine' = [thread_engine EXCEPT ![t] = NoEngine]
    /\ thread_pc' = [thread_pc EXCEPT ![t] = "idle"]
    /\ UNCHANGED <<engines, instances, model_lock, thread_type, thread_op,
                   thread_outcome>>
    /\ UNCHANGED <<detect_vars, split_vars, group_vars, task_vars, batch_vars, read_vars,
                   hl_vars>>

NextEngine ==
    \/ \E t \in Threads, model_type \in RequestedTypes : GetEngineCheck(t, model_type)
    \/ \E t \in Threads, loaded \in BOOLEAN : GetEngineConstruct(t, loaded)
    \/ \E t \in Threads : GetEngineReturn(t)
    \/ \E t \in Threads, op \in {"transcribe", "transcribe_words"} : TranscribeCall(t, op)
    \/ \E t \in Threads : AcquireLock(t)
    \/ \E t \in Threads : ModelCallReturns(t)
    \/ \E t \in Threads : ModelCallRaises(t)
    \/ \E t \in Threads : ReleaseEngine(t)

SpecEngine == InitEngine /\ [][NextEngine]_vars

\* ------------------------------------------------------------------------
\* Claims about the transcription engines
\* ------------------------------------------------------------------------
InModel == {t \in Threads : thread_pc[t] = "in_model"}

\* C24: model calls are mutually exclusive: at most one thread at a time is
\* inside a model transcription call or the iteration over its results,
\* whichever engine and whichever of transcribe and transcribe_words it runs,
\* and the lock is held exactly while a thread is inside, so it is free again
\* after a call that ended by an exception.
C24_ModelCallsExclusive ==
    /\ Cardinality(InModel) <= 1
    /\ \A t \in Threads : (thread_pc[t] = "in_model") <=> (model_lock = t)
    /\ InModel = {} => model_lock = Free

C24_Witness ==
    /\ thread_pc["t1"] = "in_model"
    /\ thread_op["t1"] = "transcribe"
    /\ thread_outcome["t1"] = "raised"
    /\ thread_pc["t2"] = "acquiring"
    /\ thread_op["t2"] = "transcribe_words"
    /\ thread_engine["t1"] # thread_engine["t2"]

InstancesOf(ty) == {i \in 1..Len(instances) : instances[i].model_type = ty}

HoldsEngine(t) == thread_pc[t] \in {"ready", "acquiring", "in_model"}

\* C30: get_engine is a singleton per model type: however the calls of the
\* threads interleave, at most one TranscriptionEngine is ever constructed
\* for a type, callers of the same normalised type hold the same instance,
\* and a caller asking for an unknown type holds the 'precise' instance.
C30_EngineSingleton ==
    /\ \A ty \in MODEL_TYPES : Cardinality(InstancesOf(ty)) <= 1
    /\ \A t \in Threads :
           HoldsEngine(t) =>
               /\ thread_engine[t] # NoEngine
               /\ instances[thread_engine[t]].model_type = Normalise(thread_type[t])
               /\ thread_type[t] \notin MODEL_TYPES =>
                      instances[thread_engine[t]].model_type = "precise"
    /\ \A t, u \in Threads :
           (/\ HoldsEngine(t)
            /\ HoldsEngine(u)
            /\ Normalise(thread_type[t]) = Normalise(thread_type[u]))
               => thread_engine[t] = thread_engine[u]

\* ------------------------------------------------------------------------
\* read_timestamps applied to any file: its lines are entries as the detector
\* writes them, the same with one thing wrong, and header lines.
\* ------------------------------------------------------------------------
SampleEntries == {EntryLine(1, <<3, 9>>), EntryLine(2, <<6, 69>>)}

\* What can differ from the detector's format: no arrow, a second arrow, no
\* digit first, a field that is not numeric, a field with a part missing, no
\* "<index>." prefix (the line then starts with the digits of its start
\* time), a field with a fourth part.
Damaged(line) ==
    {[line EXCEPT !.arrows = 0],
     [line EXCEPT !.arrows = 2],
     [line EXCEPT !.digit_first = FALSE],
     [line EXCEPT !.start.kind = "non_numeric"],
     [line EXCEPT !.end.kind = "missing"],
     [line EXCEPT !.has_index = FALSE],
     [line EXCEPT !.end.kind = "time_extra"]}

FileLines == {TextLine} \cup SampleEntries \cup UNION {Damaged(l) : l \in SampleEntries}

InitRead ==
    /\ DetectIdle
    /\ SplitOff
    /\ GroupOff
    /\ TaskOff
    /\ BatchOff
    /\ EngineOff
    /\ HighlightOff
    /\ read_file \in {NoFile} \cup
                     {[exists |-> TRUE, lines |-> l] : l \in SeqsUpTo(FileLines, MaxLines)}
    /\ read_segments = <<>>
    /\ read_pc = "input"

ReadTimestamps ==
    /\ read_pc = "input"
    /\ read_segments' = read_timestamps(read_file)
    /\ read_pc' = "done"
    /\ UNCHANGED read_file
    /\ UNCHANGED <<detect_vars, split_vars, group_vars, task_vars, batch_vars, engine_vars,
                   hl_vars>>

NextRead == ReadTimestamps

SpecRead == InitRead /\ [][NextRead]_vars

\* ------------------------------------------------------------------------
\* Claims about read_timestamps
\* ------------------------------------------------------------------------
\* A line of the form "<index>. HH:MM:SS -> HH:MM:SS".
WellFormedLine(line) ==
    /\ line.arrows = 1
    /\ line.digit_first
    /\ line.has_index
    /\ line.start.kind = "time"
    /\ line.end.kind = "time"

\* A line that starts with a digit, holds one arrow, and whose two fields
\* each begin with three numbers.
ReadableLine(line) ==
    /\ line.arrows = 1
    /\ line.digit_first
    /\ line.start.kind \in {"time", "time_extra"}
    /\ line.end.kind \in {"time", "time_extra"}

SecondsOf(hms) == hms[1] * 3600 + hms[2] * 60 + hms[3]

RECURSIVE PairsOfWellFormed(_, _)
PairsOfWellFormed(lines, k) ==
    IF k > Len(lines)
    THEN <<>>
    ELSE (IF WellFormedLine(lines[k])
          THEN <<<<SecondsOf(lines[k].start.hms), SecondsOf(lines[k].end.hms)>>>>
          ELSE <<>>) \o PairsOfWellFormed(lines, k + 1)

RECURSIVE PairsOfReadable(_, _)
PairsOfReadable(lines, k) ==
    IF k > Len(lines)
    THEN <<>>
    ELSE (IF ReadableLine(lines[k])
          THEN <<<<SecondsOf(lines[k].start.hms), SecondsOf(lines[k].end.hms)>>>>
          ELSE <<>>) \o PairsOfReadable(lines, k + 1)

\* C25 as stated: whatever the lines of the file, read_timestamps returns
\* exactly the (start, end) pairs of the well-formed
\* "<index>. HH:MM:SS -> HH:MM:SS" lines, in file order; every other line is
\* skipped and the lines after it are still read.
C25_Original ==
    read_pc = "done" =>
        read_segments = PairsOfWellFormed(read_file.lines, 1)

\* C25 amended: whatever the lines of the file, read_timestamps returns
\* exactly the (start, end) pairs of the lines that start with a digit, hold
\* one arrow and whose two fields each begin with three numbers (the index
\* prefix is not required, parts after the seconds are ignored), in file
\* order; a line with no arrow, no leading digit, a second arrow or a
\* non-numeric or incomplete time field is skipped and the lines after it are
\* still read.
C25_MalformedLinesSkipped ==
    read_pc = "done" =>
        read_segments = PairsOfReadable(read_file.lines, 1)

C25_Witness ==
    /\ read_pc = "done"
    /\ Len(read_file.lines) = 3
    /\ read_file.lines[1].start.kind = "non_numeric"
    /\ read_file.lines[1].arrows = 1
    /\ read_file.lines[2].arrows = 2
    /\ WellFormedLine(read_file.lines[3])
    /\ read_segments = <<<<6, 69>>>>

\* ------------------------------------------------------------------------
\* Word-highlight subtitle events: create_word_by_word_ass
\* (add_subtitles.py) and create_demo_subtitles_ass (generate_shorts.py).
\* A displayed group is (start, end, words): its text counts only through
\* the number of words text.split() gives.  Times are in hundredths of a
\* second, the resolution of seconds_to_ass_time, which truncates.  An
\* event is the group it belongs to (position in the list), its two times
\* and the set of word positions (from 0, as in the code) written in the
\* highlight colour.

\* add_subtitles.py line 133: the default of words_per_highlight, which the
\* only caller (line 222) leaves in place.
DEFAULT_WORDS_PER_HIGHLIGHT == 3

\* generate_shorts.py lines 432-436: the three default lines have 3, 4 and
\* 3 words.
DEFAULT_TEXT_LINES == <<3, 4, 3>>

\* add_subtitles.py lines 148-163: the events of one subtitle from word i on.
RECURSIVE HighlightChunks(_, _, _, _)
HighlightChunks(g, sub, i, words_per_highlight) ==
    LET n == sub.words
        duration == sub.end - sub.start
    IN  IF i >= n
        THEN <<>>
        ELSE <<[group |-> g,
                start |-> sub.start + (i * duration) \div n,
                end |-> Min(sub.start + ((i + words_per_highlight) * duration) \div n,
                            sub.end),
                highlighted |-> {j \in 0..(n - 1) :
                                    i <= j /\ j < i + words_per_highlight}]>>
             \o HighlightChunks(g, sub, i + words_per_highlight, words_per_highlight)

\* add_subtitles.py lines 139-166; a subtitle without words is passed over
\* (lines 141-142).
RECURSIVE WordByWordFrom(_, _, _)
WordByWordFrom(subtitles, g, words_per_highlight) ==
    IF g > Len(subtitles)
    THEN <<>>
    ELSE (IF subtitles[g].words = 0
          THEN <<>>
          ELSE HighlightChunks(g, subtitles[g], 0, words_per_highlight))
         \o WordByWordFrom(subtitles, g + 1, words_per_highlight)

create_word_by_word_ass(subtitles, words_per_highlight) ==
    WordByWordFrom(subtitles, 1, words_per_highlight)

\* generate_shorts.py lines 439-443: the lines share the duration equally.
DemoSegments(duration, lines) ==
    [i \in 1..Len(lines) |->
        [start |-> ((i - 1) * duration) \div Len(lines),
         end |-> (i * duration) \div Len(lines),
         words |-> lines[i]]]

\* generate_shorts.py lines 448-465: one event per word of a line of two
\* words or more, else the line as it is, nothing highlighted.
DemoLine(duration, lines, i) ==
    LET n == lines[i]
        L == Len(lines)
    IN  IF n > 1
        THEN [j \in 1..n |->
                [group |-> i,
                 start |-> (((i - 1) * n + (j - 1)) * duration) \div (L * n),
                 end |-> (((i - 1) * n + j) * duration) \div (L * n),
                 highlighted |-> {j - 1}]]
        ELSE <<[group |-> i,
                start |-> DemoSegments(duration, lines)[i].start,
                end |-> DemoSegments(duration, lines)[i].end,
                highlighted |-> {}]>>

RECURSIVE DemoFrom(_, _, _)
DemoFrom(duration, lines, i) ==
    IF i > Len(lines)
    THEN <<>>
    ELSE DemoLine(duration, lines, i) \o DemoFrom(duration, lines, i + 1)

\* generate_shorts.py lines 431-436: no lines given, the default ones.
DemoLines(text_lines) ==
    IF text_lines = <<>> THEN DEFAULT_TEXT_LINES ELSE text_lines

create_demo_subtitles_ass(duration, text_lines) ==
    DemoFrom(duration, DemoLines(text_lines), 1)

\* The displayed groups a call works on.
DisplayedGroups(call) ==
    IF call.fn = "create_word_by_word_ass"
    THEN call.subtitles
    ELSE IF call.fn = "create_demo_subtitles_ass"
         THEN DemoSegments(call.duration, DemoLines(call.text_lines))
         ELSE <<>>

HighlightGroups ==
    {[start |-> a, end |-> a + d, words |-> n] :
        a \in 0..MaxTick, d \in 0..MaxTick, n \in 0..MaxWords}

\* No subtitle, one, or two that follow each other.
HighlightSubtitles ==
    {<<>>} \cup {<<g>> : g \in HighlightGroups}
           \cup {<<g, [start |-> g.end, end |-> g.end + d, words |-> n]>> :
                    g \in HighlightGroups, d \in 0..MaxTick, n \in 0..MaxWords}

HighlightCalls ==
    {[fn |-> "create_word_by_word_ass", subtitles |-> subs,
      words_per_highlight |-> DEFAULT_WORDS_PER_HIGHLIGHT,
      duration |-> 0, text_lines |-> <<>>] : subs \in HighlightSubtitles}
    \cup
    {[fn |-> "create_demo_subtitles_ass", subtitles |-> <<>>,
      words_per_highlight |-> 0,
      duration |-> d, text_lines |-> l] :
        d \in 0..(2 * MaxTick), l \in SeqsUpTo(0..MaxWords, 2)}

InitHighlight ==
    /\ DetectIdle
    /\ SplitOff
    /\ GroupOff
    /\ TaskOff
    /\ BatchOff
    /\ EngineOff
    /\ ReadOff
    /\ hl_call \in HighlightCalls
    /\ hl_windows = <<>>
    /\ hl_pc = "input"

CreateWordByWordAss ==
    /\ hl_pc = "input"
    /\ hl_call.fn = "create_word_by_word_ass"
    /\ hl_windows' = create_word_by_word_ass(hl_call.subtitles,
                                             hl_call.words_per_highlight)
    /\ hl_pc' = "done"
    /\ UNCHANGED hl_call
    /\ UNCHANGED <<detect_vars, split_vars, group_vars, task_vars, batch_vars, engine_vars,
                   read_vars>>

CreateDemoSubtitlesAss ==
    /\ hl_pc = "input"
    /\ hl_call.fn = "create_demo_subtitles_ass"
    /\ hl_windows' = create_demo_subtitles_ass(hl_call.duration, hl_call.text_lines)
    /\ hl_pc' = "done"
    /\ UNCHANGED hl_call
    /\ UNCHANGED <<detect_vars, split_vars, group_vars, task_vars, batch_vars, engine_vars,
                   read_vars>>

NextHighlight == CreateWordByWordAss \/ CreateDemoSubtitlesAss

SpecHighlight == InitHighlight /\ [][NextHighlight]_vars

\* The events of displayed group g, in the order they were appended.
WindowsOf(g) == SelectSeq(hl_windows, LAMBDA w : w.group = g)

\* C26: in the word-highlight variant every displayed group yields exactly
\* one highlight window per word, in word order, with exactly that one word
\* highlighted, and every window lies within the group's [start, end].
C26_OneWindowPerWord ==
    hl_pc = "done" =>
        \A g \in 1..Len(DisplayedGroups(hl_call)) :
            LET grp == DisplayedGroups(hl_call)[g]
            IN  /\ Len(WindowsOf(g)) = grp.words
                /\ \A k \in 1..Len(WindowsOf(g)) :
                      /\ WindowsOf(g)[k].highlighted = {k - 1}
                      /\ grp.start <= WindowsOf(g)[k].start
                      /\ WindowsOf(g)[k].start <= WindowsOf(g)[k].end
                      /\ WindowsOf(g)[k].end <= grp.end

====
